---- MODULE Spec2Model ----
(***************************************************************************)
(* Model of the TonTransport driver of ton-ledger-ts: the byte-field       *)
(* writers, the derivation path validator, the request assembler, the      *)
(* exchange protocol driven through one AsyncLock, and the response        *)
(* verifier.  A 32-bit unsigned path element is kept as two 16-bit limbs   *)
(* <<hi, lo>> (value hi * 65536 + lo), so that 0x80000000 and above are    *)
(* representable.                                                          *)
(***************************************************************************)
EXTENDS Integers, Sequences, FiniteSets, TLC

\* Number of concurrent callers of one TonTransport instance.
MaxCalls == 2
\* Longest derivation path enumerated for validatePath.
MaxPathLen == 7

Calls == 1..MaxCalls

VARIABLES permits, queue, arrived, call, vpath, vres, enc

vars == <<permits, queue, arrived, call, vpath, vres, enc>>

----------------------------------------------------------------------------
\* Buffers are sequences of bytes.

Min(a, b) == IF a < b THEN a ELSE b

Max(a, b) == IF a > b THEN a ELSE b

Rep(b, n) == [k \in 1..n |-> b]

\* Buffer.slice / Buffer.subarray: negative indexes count from the end,
\* indexes are clamped to the buffer.
Clamp(x, n) == IF x < 0 THEN Max(n + x, 0) ELSE Min(x, n)

Slice(buf, s, e) ==
    LET s1 == Clamp(s, Len(buf))
        e1 == Clamp(e, Len(buf))
    IN  IF s1 >= e1 THEN <<>> ELSE SubSeq(buf, s1 + 1, e1)

RECURSIVE BE(_, _)
BE(v, n) == IF n = 0 THEN <<>> ELSE BE(v \div 256, n - 1) \o <<v % 256>>

RECURSIVE Concat(_)
Concat(bufs) == IF bufs = <<>> THEN <<>> ELSE Head(bufs) \o Concat(Tail(bufs))

RECURSIVE ByteLen(_)
ByteLen(v) == IF v = 0 THEN 0 ELSE 1 + ByteLen(v \div 256)

----------------------------------------------------------------------------
\* utils/ledgerWriter

writeUint8(value) == <<value % 256>>

\* a writer of the low byte first
writeUint16LE(value) == <<value % 256, (value \div 256) % 256>>

writeUint16(value) == BE(value, 2)

writeUint32(value) == BE(value, 4)

\* A bigint is a sign and a magnitude: the big-endian bytes of the absolute
\* value without leading zero bytes (0n has no bytes).
BigInt(n) == [neg |-> FALSE, mag |-> BE(n, ByteLen(n))]

\* number of binary digits of a byte
TopBits(b) ==
    IF b >= 128 THEN 8 ELSE IF b >= 64 THEN 7 ELSE IF b >= 32 THEN 6 ELSE IF b >= 16 THEN 5
    ELSE IF b >= 8 THEN 4 ELSE IF b >= 4 THEN 3 ELSE IF b >= 2 THEN 2 ELSE 1

\* number of binary digits of the magnitude (0 for 0n)
BitLen(value) ==
    IF Len(value.mag) = 0 THEN 0 ELSE 8 * (Len(value.mag) - 1) + TopBits(value.mag[1])

\* value.toString(2).length of a bigint other than 0n: the binary digits,
\* and the minus sign of a negative value
BinaryLength(value) == BitLen(value) + (IF value.neg THEN 1 ELSE 0)

\* An exception thrown in place of a returned buffer.
Thrown == <<-1>>

\* beginCell().storeUint(value, bits).endCell().beginParse().loadBuffer(n):
\* the builder of the external library refuses a negative value, a value of
\* more than `bits` binary digits and more than 1023 bits in one cell.
storeUintBuffer(value, bits, before) ==
    IF value.neg \/ BitLen(value) > bits \/ before + bits > 1023
    THEN Thrown
    ELSE Rep(0, bits \div 8 - Len(value.mag)) \o value.mag

\* a writer that keeps the low 8 bytes of any value
writeUint64Wrap(value) ==
    SubSeq(Rep(0, 8) \o value.mag, Len(value.mag) + 1, Len(value.mag) + 8)

writeUint64(value) == storeUintBuffer(value, 64, 0)

\* a writer that sizes the value by its bits divided by 8, rounded down, plus 1
writeVarUIntFloor(value) ==
    LET sizeBytes == IF Len(value.mag) = 0 THEN 0 ELSE BinaryLength(value) \div 8 + 1
    IN  IF sizeBytes > 255 \/ storeUintBuffer(value, sizeBytes * 8, 8) = Thrown
        THEN Thrown
        ELSE <<sizeBytes>> \o storeUintBuffer(value, sizeBytes * 8, 8)

writeVarUInt(value) ==
    LET sizeBytes == IF Len(value.mag) = 0 THEN 0 ELSE (BinaryLength(value) + 7) \div 8
    IN  IF sizeBytes > 255 \/ storeUintBuffer(value, sizeBytes * 8, 8) = Thrown
        THEN Thrown
        ELSE <<sizeBytes>> \o storeUintBuffer(value, sizeBytes * 8, 8)

writeAddress(address) ==
    writeUint8(IF address.workChain = -1 THEN 255 ELSE address.workChain)
        \o address.hash

----------------------------------------------------------------------------
\* Derivation paths

U32(hi, lo) == <<hi, lo>>

HARDENED == U32(32768, 0)

\* p >= 0x80000000
GeHardened(p) == p[1] >= HARDENED[1]

validatePathMutGt(path) ==
    IF Len(path) < 6 THEN "Path is too short"
    ELSE IF path[1] # U32(0, 44) THEN "First element of a path must be 44"
    ELSE IF path[2] # U32(0, 607) THEN "Second element of a path must be 607"
    ELSE IF \E k \in 1..Len(path) : path[k][1] > HARDENED[1]
         THEN "All path elements must be under 0x80000000"
    ELSE "ok"

\* "ok", or the message of the Error thrown.
validatePath(path) ==
    IF Len(path) < 6 THEN "Path is too short"
    ELSE IF path[1] # U32(0, 44) THEN "First element of a path must be 44"
    ELSE IF path[2] # U32(0, 607) THEN "Second element of a path must be 607"
    ELSE IF \E k \in 1..Len(path) : GeHardened(path[k])
         THEN "All path elements must be under 0x80000000"
    ELSE "ok"

\* path.map((v) => v + 0x80000000), for elements below 0x80000000
Harden(path) == [k \in 1..Len(path) |-> U32(path[k][1] + HARDENED[1], path[k][2])]

\* a path buffer with the low byte of each element first
pathElementsToBufferLE(paths) ==
    [k \in 1..(1 + Len(paths) * 4) |->
        IF k = 1 THEN Len(paths) % 256
        ELSE LET element == paths[(k - 2) \div 4 + 1]
             IN  <<element[2] % 256, element[2] \div 256,
                   element[1] % 256, element[1] \div 256>>[((k - 2) % 4) + 1]]

\* Buffer.alloc(1 + paths.length * 4), the length in byte 0 and each element
\* at 1 + 4 * index
pathElementsToBuffer(paths) ==
    [k \in 1..(1 + Len(paths) * 4) |->
        IF k = 1 THEN Len(paths) % 256
        ELSE LET element == paths[(k - 2) \div 4 + 1]
             IN  (BE(element[1], 2) \o BE(element[2], 2))[((k - 2) % 4) + 1]]

\* chunks that start one byte early from the second on
chunksOverlap(buf, n) ==
    LET nc == (Len(buf) + n - 1) \div n
    IN  [k \in 1..nc |-> Slice(buf, Max(0, (k - 1) * n - 1), k * n)]

chunks(buf, n) ==
    LET nc == (Len(buf) + n - 1) \div n
    IN  [k \in 1..nc |-> Slice(buf, (k - 1) * n, k * n)]

----------------------------------------------------------------------------
\* Tree nodes (cells) of the external library: the stored fields in order,
\* and the child references.  An optional value is <<>> (null, undefined)
\* or <<v>>.

F(k, v, n) == [k |-> k, v |-> v, n |-> n]

beginCell == [fields |-> <<>>, refs |-> <<>>]

storeUint(b, v, n) == [b EXCEPT !.fields = @ \o <<F("uint", <<v>>, n)>>]

storeBit(b, v) == [b EXCEPT !.fields = @ \o <<F("bit", <<v>>, 1)>>]

\* coins stored with a whole byte for the byte count
storeCoinsByteCount(b, v) ==
    [b EXCEPT !.fields = @ \o <<F("coins", <<v>>, 8 + 8 * Len(v.mag))>>]

storeCoins(b, v) == [b EXCEPT !.fields = @ \o <<F("coins", <<v>>, 4 + 8 * Len(v.mag))>>]

storeBuffer(b, buf) == [b EXCEPT !.fields = @ \o <<F("buf", buf, 8 * Len(buf))>>]

storeStringTail(b, text) == [b EXCEPT !.fields = @ \o <<F("stringTail", text, 8 * Len(text))>>]

\* storeAddress(null) stores the two bits 00
storeAddress(b, a) ==
    IF Len(a) = 0
    THEN [b EXCEPT !.fields = @ \o <<F("addr", <<>>, 2)>>]
    ELSE [b EXCEPT !.fields = @ \o <<F("addr", <<a[1].workChain>> \o a[1].hash, 267)>>]

storeRef(b, c) == [b EXCEPT !.refs = @ \o <<c>>]

\* a maybe-reference whose presence bit is always set
storeMaybeRefBitSet(b, oc) ==
    IF Len(oc) = 0 THEN storeBit(b, 1) ELSE storeRef(storeBit(b, 1), oc[1])

storeMaybeRef(b, oc) ==
    IF Len(oc) = 0 THEN storeBit(b, 0) ELSE storeRef(storeBit(b, 1), oc[1])

\* storeSlice(c.beginParse()): the bits and the references of c
storeSlice(b, c) == [fields |-> b.fields \o c.fields, refs |-> b.refs \o c.refs]

RECURSIVE depth(_)
depth(c) ==
    IF Len(c.refs) = 0 THEN 0
    ELSE 1 + (CHOOSE d \in {depth(c.refs[k]) : k \in 1..Len(c.refs)} :
                 \A k \in 1..Len(c.refs) : depth(c.refs[k]) <= d)

----------------------------------------------------------------------------
\* Call inputs.

Text(n) == [k \in 1..n |-> 65 + (k % 26)]

AddrD == [workChain |-> 0, hash |-> Rep(0, 32)]

AddrM == [workChain |-> -1, hash |-> Rep(17, 32)]

CellA == storeUint(beginCell, 1, 8)

CellB == storeRef(storeUint(beginCell, 2, 8), CellA)

Deposit == <<68, 101, 112, 111, 115, 105, 116>>

PayloadComment == [type |-> "comment", text |-> Deposit]

PayloadUnsafe == [type |-> "unsafe", message |-> CellB]

\* a jetton transfer whose ticker makes the request longer than one chunk
PayloadJetton ==
    [type |-> "jetton-transfer", queryId |-> <<>>, amount |-> BigInt(1), decimals |-> 9,
     ticker |-> Text(100), destination |-> AddrD, responseDestination |-> AddrD,
     customPayload |-> <<>>, forwardAmount |-> BigInt(0), forwardPayload |-> <<>>]

PayloadNft ==
    [type |-> "nft-transfer", queryId |-> <<BigInt(7)>>, newOwner |-> AddrM,
     responseDestination |-> AddrD, customPayload |-> <<CellA>>,
     forwardAmount |-> BigInt(5), forwardPayload |-> <<CellB>>]

\* a variant of an earlier release that the payload dispatch no longer handles
PayloadUpgrade == [type |-> "upgrade", queryId |-> <<>>, gasLimit |-> <<>>, code |-> CellA]

Tx(payload, stateInit) ==
    [to |-> AddrD, sendMode |-> 3, seqno |-> 1, timeout |-> 1700000000,
     bounce |-> TRUE, amount |-> BigInt(1000000000), stateInit |-> stateInit,
     payload |-> payload]

TxTable ==
    <<Tx(<<>>, <<>>), Tx(<<PayloadComment>>, <<>>), Tx(<<PayloadJetton>>, <<CellA>>),
      Tx(<<PayloadUpgrade>>, <<>>), Tx(<<PayloadUnsafe>>, <<>>), Tx(<<PayloadNft>>, <<>>)>>

ReqTable ==
    <<[type |-> "plaintext", text |-> Deposit],
      [type |-> "plaintext", text |-> Text(600)],
      [type |-> "app-data", address |-> <<AddrD>>, domain |-> <<>>,
       data |-> CellA, ext |-> <<>>],
      [type |-> "binary", text |-> Deposit],
      [type |-> "app-data", address |-> <<>>, domain |-> <<>>,
       data |-> CellA, ext |-> <<>>]>>

\* opts of signData
SignDataOpts == [timestamp |-> 1700000000]

----------------------------------------------------------------------------
\* Content hashes.  hash() of the external library is collision free on the
\* cells of the model: the k-th cell of CellTable hashes to 32 bytes k.

RECURSIVE SetToSeq(_)
SetToSeq(S) ==
    IF S = {} THEN <<>>
    ELSE LET x == CHOOSE y \in S : TRUE IN <<x>> \o SetToSeq(S \ {x})

\* signTransaction, payload section: the error thrown by endCell() for a
\* comment that does not fit the 1023 bits of one cell, "" if none
PayloadError(op) ==
    IF Len(op) # 0 /\ op[1].type = "comment" /\ 32 + 8 * Len(op[1].text) > 1023
    THEN "Bits overflow" ELSE ""

\* a payload cell that stores no query id when queryId is null
PayloadCellSkipQueryId(op) ==
    IF Len(op) = 0 THEN <<>>
    ELSE LET p == op[1] IN
      IF p.type = "comment" THEN
        <<storeBuffer(storeUint(beginCell, 0, 32), p.text)>>
      ELSE IF p.type = "unsafe" THEN
        <<p.message>>
      ELSE IF p.type = "jetton-transfer" \/ p.type = "nft-transfer" THEN
        LET jetton == p.type = "jetton-transfer"
            b0 == storeUint(beginCell, IF jetton THEN 260734629 ELSE 1607220500, 32)
            storeQueryId(b) == IF Len(p.queryId) # 0
                               THEN storeUint(b, p.queryId[1], 64)
                               ELSE b
            storeTarget(b) == IF jetton
                              THEN storeAddress(storeCoins(b, p.amount), <<p.destination>>)
                              ELSE storeAddress(b, <<p.newOwner>>)
            b1 == storeQueryId(b0)
            b2 == storeTarget(b1)
            b3 == storeAddress(b2, <<p.responseDestination>>)
            b4 == storeMaybeRef(b3, p.customPayload)
            b5 == storeCoins(b4, p.forwardAmount)
            b6 == storeMaybeRef(b5, p.forwardPayload)
        IN  <<b6>>
      ELSE <<>>


\* signTransaction, payload section: the payload cell, <<>> when it stays null
PayloadCell(op) ==
    IF Len(op) = 0 THEN <<>>
    ELSE LET p == op[1] IN
      IF p.type = "comment" THEN
        <<storeBuffer(storeUint(beginCell, 0, 32), p.text)>>
      ELSE IF p.type = "unsafe" THEN
        <<p.message>>
      ELSE IF p.type = "jetton-transfer" \/ p.type = "nft-transfer" THEN
        LET jetton == p.type = "jetton-transfer"
            b0 == storeUint(beginCell, IF jetton THEN 260734629 ELSE 1607220500, 32)
            storeQueryId(b) == IF Len(p.queryId) # 0
                               THEN storeUint(b, p.queryId[1], 64)
                               ELSE storeUint(b, BigInt(0), 64)
            storeTarget(b) == IF jetton
                              THEN storeAddress(storeCoins(b, p.amount), <<p.destination>>)
                              ELSE storeAddress(b, <<p.newOwner>>)
            b1 == storeQueryId(b0)
            b2 == storeTarget(b1)
            b3 == storeAddress(b2, <<p.responseDestination>>)
            b4 == storeMaybeRef(b3, p.customPayload)
            b5 == storeCoins(b4, p.forwardAmount)
            b6 == storeMaybeRef(b5, p.forwardPayload)
        IN  <<b6>>
      ELSE <<>>

\* the order built without the state init
OrderCellNoStateInit(tx) ==
    LET payload == PayloadCell(tx.payload)
        o1 == storeBit(storeBit(storeBit(storeBit(beginCell, 0), 1),
                                IF tx.bounce THEN 1 ELSE 0), 0)
        o2 == storeAddress(storeAddress(o1, <<>>), <<tx.to>>)
        o3 == storeCoins(storeCoins(storeBit(storeCoins(o2, tx.amount), 0), BigInt(0)), BigInt(0))
        o4 == storeUint(storeUint(o3, 0, 64), 0, 32)
        storePayload(b) == IF Len(payload) # 0
                           THEN storeRef(storeBit(b, 1), payload[1])
                           ELSE storeBit(b, 0)
    IN  storePayload(storeBit(o4, 0))

\* signTransaction, parse response section: the order and the transfer message
OrderCell(tx) ==
    LET stateInit == tx.stateInit
        payload == PayloadCell(tx.payload)
        o1 == storeBit(storeBit(storeBit(storeBit(beginCell, 0), 1),
                                IF tx.bounce THEN 1 ELSE 0), 0)
        o2 == storeAddress(storeAddress(o1, <<>>), <<tx.to>>)
        o3 == storeCoins(storeCoins(storeBit(storeCoins(o2, tx.amount), 0), BigInt(0)), BigInt(0))
        o4 == storeUint(storeUint(o3, 0, 64), 0, 32)
        storeStateInit(b) == IF Len(stateInit) # 0
                             THEN storeRef(storeBit(storeBit(b, 1), 1), stateInit[1])
                             ELSE storeBit(b, 0)
        storePayload(b) == IF Len(payload) # 0
                           THEN storeRef(storeBit(b, 1), payload[1])
                           ELSE storeBit(b, 0)
    IN  storePayload(storeStateInit(o4))

TransferCell(tx) ==
    LET t1 == storeUint(storeUint(storeUint(beginCell, 698983191, 32), tx.timeout, 32),
                        tx.seqno, 32)
        t2 == storeUint(storeUint(t1, 0, 8), tx.sendMode, 8)
    IN  storeRef(t2, OrderCell(tx))

\* signTransaction, build a message: the signature, then the bits and the
\* references of the transfer
SignedMessage(tx, signature) == storeSlice(storeBuffer(beginCell, signature), TransferCell(tx))

\* String.split on one separator byte
RECURSIVE Split(_, _)
Split(text, sep) ==
    IF \A k \in 1..Len(text) : text[k] # sep THEN <<text>>
    ELSE LET k == CHOOSE j \in 1..Len(text) :
                     text[j] = sep /\ \A m \in 1..(j - 1) : text[m] # sep
         IN  <<SubSeq(text, 1, k - 1)>> \o Split(SubSeq(text, k + 1, Len(text)), sep)

Reverse(q) == [k \in 1..Len(q) |-> q[Len(q) + 1 - k]]

\* the labels of a domain, each followed by a zero byte
RECURSIVE DomainCell(_)
DomainCell(labels) ==
    IF Len(labels) = 0 THEN beginCell
    ELSE LET rest == DomainCell(SubSeq(labels, 1, Len(labels) - 1))
         IN  storeUint(storeBuffer(rest, labels[Len(labels)]), 0, 8)

\* signData, switch on req.type: the cell of a handled request
SignDataCell(req) ==
    IF req.type = "plaintext" THEN storeStringTail(beginCell, req.text)
    ELSE LET b1 == IF Len(req.address) # 0
                   THEN storeAddress(storeBit(beginCell, 1), req.address)
                   ELSE storeBit(beginCell, 0)
             storeDomain(b) ==
                 IF Len(req.domain) # 0
                 THEN storeRef(storeBit(b, 1), DomainCell(Reverse(Split(req.domain[1], 46))))
                 ELSE storeBit(b, 0)
             storeExt(b) == IF Len(req.ext) # 0
                            THEN storeRef(storeBit(b, 1), req.ext[1])
                            ELSE storeBit(b, 0)
         IN  storeExt(storeRef(storeDomain(b1), req.data))

SignDataHandled(req) == req.type = "plaintext" \/ req.type = "app-data"

RECURSIVE SubCells(_)
SubCells(c) == {c} \cup UNION {SubCells(c.refs[k]) : k \in 1..Len(c.refs)}

CellTable ==
    SetToSeq(UNION {SubCells(TransferCell(TxTable[k])) : k \in 1..Len(TxTable)}
             \cup UNION {SubCells(SignDataCell(ReqTable[k])) :
                            k \in {j \in 1..Len(ReqTable) : SignDataHandled(ReqTable[j])}})

IndexOf(seq, x) == CHOOSE k \in 1..Len(seq) : seq[k] = x

hash(c) == Rep(IndexOf(CellTable, c), 32)

writeCellRef(ref) == writeUint16(depth(ref)) \o hash(ref)

\* signTransaction, payload section: the hints
PayloadHints(op) ==
    IF Len(op) = 0 THEN writeUint8(0)
    ELSE LET p == op[1] IN
      IF p.type = "comment" THEN
        writeUint8(1) \o writeUint32(0) \o writeUint16(Len(p.text)) \o p.text
      ELSE IF p.type = "jetton-transfer" \/ p.type = "nft-transfer" THEN
        LET jetton == p.type = "jetton-transfer"
            h0 == writeUint8(1) \o writeUint32(IF jetton THEN 1 ELSE 2)
            d1 == IF Len(p.queryId) # 0
                  THEN writeUint8(1) \o writeUint64(p.queryId[1])
                  ELSE writeUint8(0)
            d2 == d1 \o (IF jetton
                         THEN writeVarUInt(p.amount)
                                \o writeUint8(p.decimals) \o writeUint8(Len(p.ticker))
                                \o p.ticker \o writeAddress(p.destination)
                         ELSE writeAddress(p.newOwner))
            d3 == d2 \o writeAddress(p.responseDestination)
            d4 == d3 \o (IF Len(p.customPayload) # 0
                         THEN writeUint8(1) \o writeCellRef(p.customPayload[1])
                         ELSE writeUint8(0))
            d5 == d4 \o writeVarUInt(p.forwardAmount)
            d6 == d5 \o (IF Len(p.forwardPayload) # 0
                         THEN writeUint8(1) \o writeCellRef(p.forwardPayload[1])
                         ELSE writeUint8(0))
            withLength(d) == writeUint16(Len(d)) \o d
        IN  h0 \o withLength(d6)
      ELSE writeUint8(0)

\* a request buffer that ends with the payload presence byte when there is
\* no payload
TxPkgNoHintsByte(tx) ==
    LET pkg0 == writeUint8(0) \o writeUint32(tx.seqno) \o writeUint32(tx.timeout)
                  \o writeVarUInt(tx.amount) \o writeAddress(tx.to)
                  \o writeUint8(IF tx.bounce THEN 1 ELSE 0) \o writeUint8(tx.sendMode)
        pkg1 == pkg0 \o (IF Len(tx.stateInit) # 0
                         THEN writeUint8(1) \o writeUint16(depth(tx.stateInit[1]))
                                \o hash(tx.stateInit[1])
                         ELSE writeUint8(0))
        serialize(payload) ==
            IF Len(payload) # 0
            THEN writeUint8(1) \o writeUint16(depth(payload[1])) \o hash(payload[1])
                   \o PayloadHints(tx.payload)
            ELSE writeUint8(0)
    IN  pkg1 \o serialize(PayloadCell(tx.payload))

\* signTransaction, create package .. serialize payload: the request buffer
TxPkg(tx) ==
    LET pkg0 == writeUint8(0) \o writeUint32(tx.seqno) \o writeUint32(tx.timeout)
                  \o writeVarUInt(tx.amount) \o writeAddress(tx.to)
                  \o writeUint8(IF tx.bounce THEN 1 ELSE 0) \o writeUint8(tx.sendMode)
        pkg1 == pkg0 \o (IF Len(tx.stateInit) # 0
                         THEN writeUint8(1) \o writeUint16(depth(tx.stateInit[1]))
                                \o hash(tx.stateInit[1])
                         ELSE writeUint8(0))
        serialize(payload) ==
            IF Len(payload) # 0
            THEN writeUint8(1) \o writeUint16(depth(payload[1])) \o hash(payload[1])
                   \o PayloadHints(tx.payload)
            ELSE writeUint8(0) \o writeUint8(0)
    IN  pkg1 \o serialize(PayloadCell(tx.payload))

\* signData: schema of a handled request
SignDataSchema(req) == IF req.type = "plaintext" THEN 1967913243 ELSE 1421182261

\* signData: the data of a handled request
SignDataData(req) ==
    IF req.type = "plaintext" THEN req.text
    ELSE LET dp1 == IF Len(req.address) # 0
                    THEN writeUint8(1) \o writeAddress(req.address[1])
                    ELSE writeUint8(0)
             dp2 == IF Len(req.domain) # 0
                    THEN writeUint8(1) \o writeUint8(Len(req.domain[1])) \o req.domain[1]
                    ELSE writeUint8(0)
             dp3 == writeCellRef(req.data)
             dp4 == IF Len(req.ext) # 0
                    THEN writeUint8(1) \o writeCellRef(req.ext[1])
                    ELSE writeUint8(0)
         IN  dp1 \o dp2 \o dp3 \o dp4

SignDataCommonPart(req, timestamp) ==
    writeUint32(SignDataSchema(req)) \o writeUint64(BigInt(timestamp))

SignDataPkg(req, timestamp) == SignDataCommonPart(req, timestamp) \o SignDataData(req)

----------------------------------------------------------------------------
\* Constants of TonTransport

LEDGER_SYSTEM == 176
LEDGER_CLA == 224
INS_VERSION == 3
INS_ADDRESS == 5
INS_SIGN_TX == 6
INS_PROOF == 8
INS_SIGN_DATA == 9

NoOpts == [testOnly |-> <<>>, bounceable |-> <<>>, chain |-> <<>>]

\* opts of the address operations: none, each chain flag value, a chain that
\* is neither the base chain nor the masterchain, test-only addresses and
\* both values of bounceable
OptsTable ==
    <<NoOpts, [NoOpts EXCEPT !.chain = <<0>>], [NoOpts EXCEPT !.chain = <<-1>>],
      [NoOpts EXCEPT !.chain = <<5>>],
      [NoOpts EXCEPT !.chain = <<-1>>, !.testOnly = <<TRUE>>],
      [NoOpts EXCEPT !.testOnly = <<TRUE>>],
      [NoOpts EXCEPT !.bounceable = <<FALSE>>],
      [NoOpts EXCEPT !.chain = <<-1>>, !.testOnly = <<TRUE>>, !.bounceable = <<FALSE>>]>>

\* flags with the two bits exchanged
processAddressFlagsSwapped(opts) ==
    LET bounceable == IF Len(opts.bounceable) = 0 THEN TRUE ELSE opts.bounceable[1]
        testOnly == IF Len(opts.testOnly) = 0 THEN FALSE ELSE opts.testOnly[1]
        chain == IF Len(opts.chain) = 0 THEN 0 ELSE opts.chain[1]
    IN  [bounceable |-> bounceable, testOnly |-> testOnly, chain |-> chain,
         flags |-> (IF testOnly THEN 2 ELSE 0) + (IF chain = -1 THEN 1 ELSE 0)]

processAddressFlags(opts) ==
    LET bounceable == IF Len(opts.bounceable) = 0 THEN TRUE ELSE opts.bounceable[1]
        testOnly == IF Len(opts.testOnly) = 0 THEN FALSE ELSE opts.testOnly[1]
        chain == IF Len(opts.chain) = 0 THEN 0 ELSE opts.chain[1]
    IN  [bounceable |-> bounceable, testOnly |-> testOnly, chain |-> chain,
         flags |-> (IF testOnly THEN 1 ELSE 0) + (IF chain = -1 THEN 2 ELSE 0)]

\* ton-crypto signVerify and the signature it accepts: the only signature of
\* message m under key pk is SigOf(m, pk).
SigOf(m, pk) == Slice(m \o pk, 0, 64)

signVerify(m, sig, pk) == Len(pk) = 32 /\ Len(sig) = 64 /\ sig = SigOf(m, pk)

\* params of getAddressProof
ProofParams == [domain |-> <<116, 111, 110>>, timestamp |-> 1700000000, payload |-> <<1, 2, 3>>]

ProofReqBuf(path, params) ==
    pathElementsToBuffer(Harden(path)) \o writeUint8(Len(params.domain)) \o params.domain
        \o writeUint64(BigInt(params.timestamp)) \o params.payload

\* The request buffers of the inputs, computed once.
TxPkgs == [k \in 1..Len(TxTable) |-> TxPkg(TxTable[k])]

ReqPkgs ==
    [k \in 1..Len(ReqTable) |->
        IF SignDataHandled(ReqTable[k])
        THEN SignDataPkg(ReqTable[k], SignDataOpts.timestamp) ELSE <<>>]

TxHashes == [k \in 1..Len(TxTable) |-> hash(TransferCell(TxTable[k]))]

ReqHashes ==
    [k \in 1..Len(ReqTable) |->
        IF SignDataHandled(ReqTable[k]) THEN hash(SignDataCell(ReqTable[k])) ELSE <<>>]

----------------------------------------------------------------------------
\* teslabot AsyncLock: one permit, waiters resumed in the order they queued.
\* A lock state is [permits, queue]; the operators return the new lock state
\* and, in granted, the caller that now owns the permit (or <<>>).

lock(L, c) ==
    IF L.permits > 0
    THEN [permits |-> L.permits - 1, queue |-> L.queue, granted |-> <<c>>]
    ELSE [permits |-> L.permits, queue |-> Append(L.queue, c), granted |-> <<>>]

unlock(L) ==
    IF L.permits + 1 = 1 /\ Len(L.queue) > 0
    THEN [permits |-> 0, queue |-> Tail(L.queue), granted |-> <<Head(L.queue)>>]
    ELSE [permits |-> L.permits + 1, queue |-> L.queue, granted |-> <<>>]

\* #doRequest of the release without the lock: the exchange starts at once
doRequestNoLock(L, c) == [permits |-> L.permits, queue |-> L.queue, granted |-> <<c>>]

\* #doRequest and #getCurrentApp enter this.#lock.inLock
doRequest(L, c) == lock(L, c)

\* inLock without the finally: the permit stays taken
releaseKept(L) == [permits |-> L.permits, queue |-> L.queue, granted |-> <<>>]

\* finally { this.unlock() } of inLock
release(L) == unlock(L)

----------------------------------------------------------------------------
\* One call of a public method.  pc is the position of the call:
\*   idle     not called yet
\*   waiting  in the queue of the lock
\*   granted  owns the permit, transport.send not started yet
\*   sending  transport.send in flight
\*   settled  transport.send settled and the lock released; the caller's
\*            continuation has not run yet
\*   done     returned or thrown (out)

NoReq == [cla |-> 0, ins |-> 0, p1 |-> 0, p2 |-> 0, what |-> "none", i |-> 0, len |-> 0]

Req(cla, ins, p1, p2, what, i, len) ==
    [cla |-> cla, ins |-> ins, p1 |-> p1, p2 |-> p2, what |-> what, i |-> i, len |-> len]

NoResp == [ok |-> TRUE, data |-> <<>>, error |-> ""]

NoOut == [kind |-> "none", error |-> "", value |-> <<>>]

IdleRec(inp) ==
    [op |-> inp.op, path |-> inp.path, arg |-> inp.arg, pc |-> "idle", stage |-> "none",
     req |-> NoReq, i |-> 0, publicKey |-> <<>>, resp |-> NoResp, out |-> NoOut,
     sent |-> <<>>, nsettled |-> 0, verified |-> 0]

ChecksPath(op) ==
    op \in {"getAddress", "validateAddress", "getAddressProof", "signData", "signTransaction"}

Chunked(op) == op \in {"signData", "signTransaction"}

Ins(rec) == IF rec.op = "signTransaction" THEN INS_SIGN_TX ELSE INS_SIGN_DATA

\* the package written into a builder kept by the instance: a call that
\* finished earlier leaves a byte in front of it
PkgSharedBuilder(rec) ==
    (IF \E c \in Calls : call[c].pc = "done" THEN <<0>> ELSE <<>>)
        \o (IF rec.op = "signTransaction" THEN TxPkgs[rec.arg] ELSE ReqPkgs[rec.arg])

Pkg(rec) == IF rec.op = "signTransaction" THEN TxPkgs[rec.arg] ELSE ReqPkgs[rec.arg]

PathBufLen(path) == Len(pathElementsToBuffer(Harden(path)))

\* The next thing a call does: issue a request, return or throw.
Ask(rec, stage, req, i, pk) ==
    [kind |-> "request", stage |-> stage, req |-> req, i |-> i, publicKey |-> pk,
     error |-> "", value |-> <<>>, verified |-> rec.verified]

Throw(rec, e, ver) ==
    [kind |-> "throw", stage |-> rec.stage, req |-> NoReq, i |-> rec.i,
     publicKey |-> rec.publicKey, error |-> e, value |-> <<>>, verified |-> ver]

Return(rec, v, ver) ==
    [kind |-> "return", stage |-> rec.stage, req |-> NoReq, i |-> rec.i,
     publicKey |-> rec.publicKey, error |-> "", value |-> v, verified |-> ver]

\* a call that does not validate its path
EnterNoCheck(rec) ==
    IF rec.op = "getVersion"
    THEN Ask(rec, "version", Req(LEDGER_CLA, INS_VERSION, 0, 0, "empty", 0, 0), 0, <<>>)
    ELSE IF rec.op = "isAppOpen"
    THEN Ask(rec, "app", Req(LEDGER_SYSTEM, 1, 0, 0, "empty", 0, 0), 0, <<>>)
    ELSE Ask(rec, "key", Req(LEDGER_CLA, INS_ADDRESS, 0, 0,
                             "path", 0, 1 + 4 * Len(rec.path)), 0, <<>>)

\* The synchronous part of a call, up to its first await.
Enter(rec) ==
    IF rec.op = "getVersion"
    THEN Ask(rec, "version", Req(LEDGER_CLA, INS_VERSION, 0, 0, "empty", 0, 0), 0, <<>>)
    ELSE IF rec.op = "isAppOpen"
    THEN Ask(rec, "app", Req(LEDGER_SYSTEM, 1, 0, 0, "empty", 0, 0), 0, <<>>)
    ELSE IF validatePath(rec.path) # "ok"
    THEN Throw(rec, validatePath(rec.path), 0)
    ELSE IF rec.op = "validateAddress"
    THEN Ask(rec, "key", Req(LEDGER_CLA, INS_ADDRESS, 1,
                             processAddressFlags(OptsTable[rec.arg]).flags,
                             "path", 0, PathBufLen(rec.path)), 0, <<>>)
    ELSE Ask(rec, "key", Req(LEDGER_CLA, INS_ADDRESS, 0, 0,
                             "path", 0, PathBufLen(rec.path)), 0, <<>>)

\* The exchange that carries chunk k (0-based) of the chunks pkgCs.
ChunkReq(rec, pkgCs, k) ==
    Req(LEDGER_CLA, Ins(rec), 0, IF k < Len(pkgCs) - 1 THEN 2 ELSE 0,
        "chunk", k, Len(pkgCs[k + 1]))

\* The loop over pkgCs at chunk k: an intermediate chunk or the last one.
SendChunk(rec, pkgCs, k) ==
    IF k < Len(pkgCs) - 1
    THEN Ask(rec, "chunk", ChunkReq(rec, pkgCs, k), k, rec.publicKey)
    ELSE Ask(rec, "final", ChunkReq(rec, pkgCs, Len(pkgCs) - 1), k, rec.publicKey)

\* the loop running over every chunk, the last one included
SendChunkOffByOne(rec, pkgCs, k) ==
    IF k < Len(pkgCs)
    THEN Ask(rec, "chunk", [ChunkReq(rec, pkgCs, k) EXCEPT !.p2 = 2], k, rec.publicKey)
    ELSE Ask(rec, "final", ChunkReq(rec, pkgCs, Len(pkgCs) - 1), k, rec.publicKey)

\* Send package with a loop that runs over every chunk
SendPackageOffByOne(rec) ==
    IF rec.stage = "key"
    THEN Ask(rec, "decl", Req(LEDGER_CLA, Ins(rec), 0, 3, "path", 0,
                              PathBufLen(rec.path)), 0, rec.resp.data)
    ELSE SendChunkOffByOne(rec, chunks(Pkg(rec), 255),
                           IF rec.stage = "decl" THEN 0 ELSE rec.i + 1)

\* Send package: after the exchange of stage rec.stage has returned
SendPackage(rec) ==
    IF rec.stage = "key"
    THEN Ask(rec, "decl", Req(LEDGER_CLA, Ins(rec), 0, 3, "path", 0,
                              PathBufLen(rec.path)), 0, rec.resp.data)
    ELSE SendChunk(rec, chunks(Pkg(rec), 255), IF rec.stage = "decl" THEN 0 ELSE rec.i + 1)

\* parse result with the signature checked before the hash
ParseSignTxVerifyFirst(rec) ==
    LET res == rec.resp.data
        signature == Slice(res, 1, 1 + 64)
        h == Slice(res, 2 + 64, 2 + 64 + 32)
    IN  IF ~signVerify(h, signature, rec.publicKey)
        THEN Throw(rec, "Received signature is invalid", rec.verified + 1)
        ELSE IF h # TxHashes[rec.arg] THEN Throw(rec, "Hash mismatch", rec.verified + 1)
        ELSE Return(rec, signature, rec.verified + 1)

\* parse result without the signature check
ParseSignTxNoVerify(rec) ==
    LET res == rec.resp.data
        signature == Slice(res, 1, 1 + 64)
        h == Slice(res, 2 + 64, 2 + 64 + 32)
    IN  IF h # TxHashes[rec.arg] THEN Throw(rec, "Hash mismatch", rec.verified)
        ELSE Return(rec, signature, rec.verified)

\* signTransaction: parse result
ParseSignTx(rec) ==
    LET res == rec.resp.data
        signature == Slice(res, 1, 1 + 64)
        h == Slice(res, 2 + 64, 2 + 64 + 32)
    IN  IF h # TxHashes[rec.arg] THEN Throw(rec, "Hash mismatch", rec.verified)
        ELSE IF ~signVerify(h, signature, rec.publicKey)
        THEN Throw(rec, "Received signature is invalid", rec.verified + 1)
        ELSE Return(rec, signature, rec.verified + 1)

\* verification of the signature over the hash alone
ParseSignDataHashOnly(rec) ==
    LET res == rec.resp.data
        signature == Slice(res, 1, 1 + 64)
        h == Slice(res, 2 + 64, 2 + 64 + 32)
    IN  IF h # ReqHashes[rec.arg] THEN Throw(rec, "Hash mismatch", rec.verified)
        ELSE IF ~signVerify(h, signature, rec.publicKey)
        THEN Throw(rec, "Received signature is invalid", rec.verified + 1)
        ELSE Return(rec, signature, rec.verified + 1)

\* signData: verification of the final response
ParseSignData(rec) ==
    LET res == rec.resp.data
        signature == Slice(res, 1, 1 + 64)
        h == Slice(res, 2 + 64, 2 + 64 + 32)
        commonPart == SignDataCommonPart(ReqTable[rec.arg], SignDataOpts.timestamp)
    IN  IF h # ReqHashes[rec.arg] THEN Throw(rec, "Hash mismatch", rec.verified)
        ELSE IF ~signVerify(commonPart \o h, signature, rec.publicKey)
        THEN Throw(rec, "Received signature is invalid", rec.verified + 1)
        ELSE Return(rec, signature, rec.verified + 1)

\* getAddressProof: verification of the response
ParseProof(rec) ==
    LET res == rec.resp.data
        signature == Slice(res, 1, 1 + 64)
        h == Slice(res, 2 + 64, 2 + 64 + 32)
    IN  IF ~signVerify(h, signature, rec.publicKey)
        THEN Throw(rec, "Received signature is invalid", rec.verified + 1)
        ELSE Return(rec, signature, rec.verified + 1)

\* signData, switch on req.type: the error it throws, "" when it throws none
SignDataDispatch(req) ==
    IF req.type = "plaintext" THEN ""
    ELSE IF req.type = "app-data"
    THEN IF Len(req.address) = 0 /\ Len(req.domain) = 0
         THEN "At least one of address and domain must be set"
         ELSE ""
    ELSE "Sign data request type not supported"

\* the key taken from a response of any length
AfterKeyAnyLength(rec) ==
    IF rec.op \in {"getAddress", "validateAddress"}
    THEN Return(rec, rec.resp.data, rec.verified)
    ELSE IF rec.op = "getAddressProof"
    THEN Ask(rec, "proof",
             Req(LEDGER_CLA, INS_PROOF, 1, processAddressFlags(OptsTable[rec.arg]).flags,
                 "proof", 0,
                 Len(ProofReqBuf(rec.path, ProofParams))), 0, rec.resp.data)
    ELSE IF rec.op = "signData" /\ SignDataDispatch(ReqTable[rec.arg]) # ""
    THEN Throw(rec, SignDataDispatch(ReqTable[rec.arg]), rec.verified)
    ELSE IF rec.op = "signTransaction" /\ PayloadError(TxTable[rec.arg].payload) # ""
    THEN Throw(rec, PayloadError(TxTable[rec.arg].payload), rec.verified)
    ELSE SendPackage(rec)

\* getAddress after the key query has returned
AfterKey(rec) ==
    IF Len(rec.resp.data) # 32 THEN Throw(rec, "Invalid response", rec.verified)
    ELSE IF rec.op \in {"getAddress", "validateAddress"}
    THEN Return(rec, rec.resp.data, rec.verified)
    ELSE IF rec.op = "getAddressProof"
    THEN Ask(rec, "proof",
             Req(LEDGER_CLA, INS_PROOF, 1, processAddressFlags(OptsTable[rec.arg]).flags,
                 "proof", 0,
                 Len(ProofReqBuf(rec.path, ProofParams))), 0, rec.resp.data)
    ELSE IF rec.op = "signData" /\ SignDataDispatch(ReqTable[rec.arg]) # ""
    THEN Throw(rec, SignDataDispatch(ReqTable[rec.arg]), rec.verified)
    ELSE IF rec.op = "signTransaction" /\ PayloadError(TxTable[rec.arg].payload) # ""
    THEN Throw(rec, PayloadError(TxTable[rec.arg].payload), rec.verified)
    ELSE SendPackage(rec)

\* an awaited exchange that ignores a rejection and goes on with no data
awaitSwallow(resp) == [ok |-> TRUE, data |-> resp.data, error |-> ""]

\* await this.#doRequest(...): a rejection is not caught
await(resp) == resp

\* The continuation of a call after its exchange has settled.
Resume(rec0) ==
    LET rec == [rec0 EXCEPT !.resp = await(rec0.resp)]
    IN  IF ~rec.resp.ok THEN Throw(rec, rec.resp.error, rec.verified)
        ELSE IF rec.stage = "version" THEN Return(rec, Slice(rec.resp.data, 0, 3), rec.verified)
        ELSE IF rec.stage = "app"
        THEN IF Len(rec.resp.data) = 0 \/ rec.resp.data[1] # 1
             THEN Throw(rec, "Invalid response", rec.verified)
             ELSE LET nameLength == IF Len(rec.resp.data) >= 2 THEN rec.resp.data[2] ELSE 0
                  IN  Return(rec, Slice(rec.resp.data, 2, 2 + nameLength), rec.verified)
        ELSE IF rec.stage = "key" THEN AfterKey(rec)
        ELSE IF rec.stage = "proof" THEN ParseProof(rec)
        ELSE IF rec.stage \in {"decl", "chunk"} THEN SendPackage(rec)
        ELSE IF rec.op = "signTransaction" THEN ParseSignTx(rec)
        ELSE ParseSignData(rec)

----------------------------------------------------------------------------
\* The device behind transport.send: it rejects, or resolves with some bytes
\* that end with the two status bytes.

Status == <<144, 0>>

TransportErrors == {"TransportStatusError", "DisconnectedDevice"}

DeviceKey == Rep(200, 32)

Signed(sig, h) == <<64>> \o sig \o <<32>> \o h

\* the message a correct device signs for the final exchange of rec
Expected(rec) ==
    IF rec.op = "signTransaction"
    THEN [h |-> TxHashes[rec.arg], m |-> TxHashes[rec.arg]]
    ELSE [h |-> ReqHashes[rec.arg],
          m |-> SignDataCommonPart(ReqTable[rec.arg], SignDataOpts.timestamp)
                  \o ReqHashes[rec.arg]]

\* final responses: the right one, the signature of the hash alone, another
\* hash validly signed, a signature that does not verify, a response cut short
FinalResponses(e, pk) ==
    {Signed(SigOf(e.m, pk), e.h),
     Signed(SigOf(e.h, pk), e.h),
     Signed(SigOf(Rep(255, 32), pk), Rep(255, 32)),
     Signed(Rep(0, 64), e.h),
     Slice(Signed(SigOf(e.m, pk), e.h), 0, 97)}

Responses(rec) ==
    IF rec.stage = "version" THEN {<<2, 0, 1>>}
    ELSE IF rec.stage = "app" THEN {<<1, 3, 84, 79, 78, 1, 50>>, <<0>>}
    ELSE IF rec.stage = "key" THEN {DeviceKey, Rep(200, 31), Rep(200, 33)}
    ELSE IF rec.stage \in {"decl", "chunk"} THEN {<<>>}
    ELSE IF rec.stage = "proof"
    THEN {Signed(SigOf(Rep(9, 32), rec.publicKey), Rep(9, 32)),
          Signed(Rep(0, 64), Rep(9, 32))}
    ELSE FinalResponses(Expected(rec), rec.publicKey)

Outcomes(rec) ==
    {[ok |-> FALSE, data |-> <<>>, error |-> e] : e \in TransportErrors}
        \cup {[ok |-> TRUE, data |-> r \o Status, error |-> ""] : r \in Responses(rec)}

\* return r.slice(0, r.length - 2)
Strip(o) == IF o.ok THEN [o EXCEPT !.data = Slice(o.data, 0, Len(o.data) - 2)] ELSE o

----------------------------------------------------------------------------
\* Actions

Remove(q, c) == SelectSeq(q, LAMBDA x : x # c)

Apply(c, st) ==
    IF st.kind = "request"
    THEN LET L == doRequest([permits |-> permits, queue |-> queue], c)
         IN  /\ permits' = L.permits
             /\ queue' = L.queue
             /\ arrived' = Append(arrived, c)
             /\ call' = [call EXCEPT ![c] =
                            [@ EXCEPT !.pc = IF L.granted = <<c>> THEN "granted" ELSE "waiting",
                                      !.stage = st.stage, !.req = st.req, !.i = st.i,
                                      !.publicKey = st.publicKey, !.verified = st.verified]]
    ELSE /\ call' = [call EXCEPT ![c] =
                        [@ EXCEPT !.pc = "done", !.verified = st.verified,
                                  !.out = [kind |-> st.kind, error |-> st.error,
                                           value |-> st.value]]]
         /\ UNCHANGED <<permits, queue, arrived>>

\* A caller calls a public method.
Call(c) ==
    /\ call[c].pc = "idle"
    /\ Apply(c, Enter(call[c]))
    /\ UNCHANGED <<vpath, vres, enc>>

\* The callback of inLock starts transport.send.
SendStart(c) ==
    /\ call[c].pc = "granted"
    /\ call' = [call EXCEPT ![c] = [@ EXCEPT !.pc = "sending", !.sent = Append(@, call[c].req)]]
    /\ UNCHANGED <<permits, queue, arrived, vpath, vres, enc>>

\* transport.send settles; inLock releases the lock.
Settle(c) ==
    /\ call[c].pc = "sending"
    /\ \E o \in Outcomes(call[c]) :
         LET L == release([permits |-> permits, queue |-> queue])
         IN  /\ permits' = L.permits
             /\ queue' = L.queue
             /\ arrived' = Remove(arrived, c)
             /\ call' = [k \in Calls |->
                           IF k = c THEN [call[c] EXCEPT !.pc = "settled", !.resp = Strip(o),
                                                         !.nsettled = @ + 1]
                           ELSE IF L.granted = <<k>> THEN [call[k] EXCEPT !.pc = "granted"]
                           ELSE call[k]]
    /\ UNCHANGED <<vpath, vres, enc>>

\* The caller resumes after its await.
Continue(c) ==
    /\ call[c].pc = "settled"
    /\ Apply(c, Resume(call[c]))
    /\ UNCHANGED <<vpath, vres, enc>>

----------------------------------------------------------------------------
\* Inputs

ValidPath == <<U32(0, 44), U32(0, 607), U32(0, 0), U32(0, 0), U32(0, 0), U32(0, 0)>>

InvalidPaths ==
    {SubSeq(ValidPath, 1, 5),
     [ValidPath EXCEPT ![1] = U32(0, 45)],
     [ValidPath EXCEPT ![2] = U32(0, 608)],
     [ValidPath EXCEPT ![6] = U32(32768, 0)]}

Input(op, path, arg) == [op |-> op, path |-> path, arg |-> arg]

\* concurrent callers: the two chunked operations, the app-info query and
\* the version query
ConcInputs ==
    {Input("signTransaction", ValidPath, 3), Input("signData", ValidPath, 2),
     Input("isAppOpen", <<>>, 0), Input("getVersion", <<>>, 0)}

\* one caller with every kind of input
RichInputs ==
    {Input(op, path, 1) : op \in {"getAddress", "validateAddress", "getAddressProof"},
                          path \in {ValidPath} \cup InvalidPaths}
        \cup {Input(op, ValidPath, k) :
                  op \in {"getAddress", "validateAddress", "getAddressProof"},
                  k \in 1..Len(OptsTable)}
        \cup {Input("signTransaction", path, k) : path \in {ValidPath} \cup InvalidPaths,
                                                  k \in 1..Len(TxTable)}
        \cup {Input("signData", path, k) : path \in {ValidPath} \cup InvalidPaths,
                                           k \in 1..Len(ReqTable)}
        \cup {Input("isAppOpen", <<>>, 0), Input("getVersion", <<>>, 0)}

\* the other callers: a version query or a signing call of two chunks
Background == {Input("getVersion", <<>>, 0), Input("signTransaction", ValidPath, 3)}

PathVals == {U32(0, 0), U32(0, 44), U32(0, 607), U32(32767, 65535), U32(32768, 0)}

\* no writer has been applied
NoEnc == [fn |-> "none", in |-> <<>>, out |-> <<>>, done |-> FALSE]

InitLock ==
    /\ permits = 1
    /\ queue = <<>>
    /\ arrived = <<>>

Init ==
    /\ InitLock
    /\ call \in [Calls -> {IdleRec(inp) : inp \in ConcInputs}]
    /\ vpath = <<>>
    /\ vres = "none"
    /\ enc = NoEnc

InitCall ==
    /\ InitLock
    /\ call \in {f \in [Calls -> {IdleRec(inp) : inp \in RichInputs \cup Background}] :
                    \A c \in Calls \ {1} : \E b \in Background : f[c] = IdleRec(b)}
    /\ vpath = <<>>
    /\ vres = "none"
    /\ enc = NoEnc

InitPath ==
    /\ InitLock
    /\ call = [c \in Calls |-> IdleRec(Input("getVersion", <<>>, 0))]
    /\ vpath = <<>>
    /\ vres = "none"
    /\ enc = NoEnc

Next == \E c \in Calls : Call(c) \/ SendStart(c) \/ Settle(c) \/ Continue(c)

Spec == Init /\ [][Next]_vars

SpecCall == InitCall /\ [][Next]_vars

\* Scheduling: the event loop goes on running what is ready (the callback of
\* inLock once the permit is granted, the continuation of an await once the
\* awaited exchange has settled) and every transport.send settles.  Nothing
\* obliges a caller to call.
Step == \E c \in Calls : SendStart(c) \/ Settle(c) \/ Continue(c)

Fairness == WF_vars(Step)

\* callers of the scheduling properties: a signing call of three exchanges
\* and a version query
LiveInputs == {Input("signTransaction", ValidPath, 1), Input("getVersion", <<>>, 0)}

InitLive ==
    /\ InitLock
    /\ call \in [Calls -> {IdleRec(inp) : inp \in LiveInputs}]
    /\ vpath = <<>>
    /\ vres = "none"
    /\ enc = NoEnc

SpecLive == InitLive /\ [][Next]_vars /\ Fairness

\* validatePath applied to the paths over PathVals
PathPush ==
    /\ vres = "none"
    /\ Len(vpath) < MaxPathLen
    /\ \E v \in PathVals : vpath' = Append(vpath, v)
    /\ UNCHANGED <<permits, queue, arrived, call, vres, enc>>

PathValidate ==
    /\ vres = "none"
    /\ vres' = validatePath(vpath)
    /\ UNCHANGED <<permits, queue, arrived, call, vpath, enc>>

NextPath == PathPush \/ PathValidate

SpecPath == InitPath /\ [][NextPath]_vars

----------------------------------------------------------------------------
\* The writers and the request assembler applied to one input each

\* 2^k and 2^k - 1 as bigints
Pow2(k) == [neg |-> FALSE, mag |-> <<2 ^ (k % 8)>> \o Rep(0, k \div 8)]

Pow2m1(k) ==
    [neg |-> FALSE,
     mag |-> (IF k % 8 = 0 THEN <<>> ELSE <<2 ^ (k % 8) - 1>>) \o Rep(255, k \div 8)]

\* payloads of signTransaction with every combination of optional fields
EncPayloads ==
    {[type |-> "comment", text |-> t] :
        t \in {<<>>, Deposit, Text(123), Text(124), Text(300)}}
        \cup {[type |-> "jetton-transfer", queryId |-> q, amount |-> a, decimals |-> 9,
               ticker |-> t, destination |-> AddrD, responseDestination |-> AddrM,
               customPayload |-> cp, forwardAmount |-> fa, forwardPayload |-> fp] :
                  q \in {<<>>, <<BigInt(0)>>, <<BigInt(7)>>},
                  a \in {BigInt(0), BigInt(1), Pow2(64)},
                  t \in {<<>>, Text(3), Text(255)},
                  cp \in {<<>>, <<CellA>>}, fa \in {BigInt(0), BigInt(5)},
                  fp \in {<<>>, <<CellB>>}}
        \cup {[type |-> "nft-transfer", queryId |-> q, newOwner |-> AddrM,
               responseDestination |-> AddrD, customPayload |-> cp,
               forwardAmount |-> fa, forwardPayload |-> fp] :
                  q \in {<<>>, <<BigInt(0)>>, <<BigInt(7)>>},
                  cp \in {<<>>, <<CellA>>}, fa \in {BigInt(0), BigInt(5)},
                  fp \in {<<>>, <<CellB>>}}
        \cup {PayloadUnsafe, PayloadJetton, PayloadNft}

\* sign requests with every combination of optional fields
EncReqs ==
    {[type |-> "app-data", address |-> a, domain |-> d, data |-> CellA, ext |-> e] :
        a \in {<<>>, <<AddrD>>, <<AddrM>>}, d \in {<<>>, <<<<116, 46, 109, 101>>>>},
        e \in {<<>>, <<CellB>>}}
        \cup {[type |-> "plaintext", text |-> t] : t \in {Deposit, Text(300)}}

\* transactions over the payloads and the state init of TxTable
EncTxs ==
    {[to |-> to, sendMode |-> sm, seqno |-> sq, timeout |-> 1700000000, bounce |-> bn,
      amount |-> a, stateInit |-> si, payload |-> TxTable[k].payload] :
        to \in {AddrD, AddrM}, sm \in {0, 3}, sq \in {0, 70000}, bn \in BOOLEAN,
        a \in {BigInt(0), BigInt(1000000000)}, si \in {<<>>, <<CellA>>},
        k \in 1..Len(TxTable)}

\* the paths that start with 44, 607 and have 6 to MaxPathLen elements, a
\* path of 256 elements, and the paths validatePath rejects
EncPathVals == {U32(0, 0), U32(0, 1), U32(1, 0), U32(32767, 65535)}

LongPath == <<U32(0, 44), U32(0, 607)>> \o [k \in 1..254 |-> U32(0, 1)]

EncPaths ==
    UNION {{<<U32(0, 44), U32(0, 607)>> \o t : t \in [1..(n - 2) -> EncPathVals]} :
              n \in 6..MaxPathLen}
        \cup {LongPath} \cup InvalidPaths

\* bigints: the small ones, the values around the powers of two up to the
\* capacity of a cell, and two negative ones
EncInts ==
    {BigInt(n) : n \in 0..300}
        \cup {Pow2(k) : k \in {8, 16, 31, 32, 63, 64, 65, 120, 1000, 1007, 1008, 1016, 2040}}
        \cup {Pow2m1(k) : k \in {8, 16, 31, 32, 63, 64, 65, 120, 1000, 1007, 1008, 1016, 2040}}
        \cup {[neg |-> TRUE, mag |-> <<1>>], [neg |-> TRUE, mag |-> Pow2(64).mag]}

\* addresses on the masterchain, on the base chain and on chains inside and
\* outside the range of a byte
EncAddrs ==
    {[workChain |-> w, hash |-> h] : w \in {-1, 0, 1, 255, 256, 511, -2},
                                     h \in {Rep(0, 32), Rep(17, 32)}}

\* request buffers: the packages of signTransaction and of signData, and
\* buffers of the lengths around the multiples of the chunk size
EncBufLens == {1, 2, 254, 255, 256, 509, 510, 511, 764, 765, 766}

EncBufs ==
    {TxPkgs[k] : k \in 1..Len(TxTable)}
        \cup {ReqPkgs[k] : k \in {j \in 1..Len(ReqTable) : SignDataHandled(ReqTable[j])}}
        \cup {[k \in 1..n |-> (7 * k) % 256] : n \in EncBufLens}

EncStart(fn, in) == enc = [fn |-> fn, in |-> in, out |-> <<>>, done |-> FALSE]

EncDone(fn, out) ==
    /\ enc.fn = fn
    /\ ~enc.done
    /\ enc' = [enc EXCEPT !.out = out, !.done = TRUE]
    /\ UNCHANGED <<permits, queue, arrived, call, vpath, vres>>

InitEnc ==
    /\ InitLock
    /\ call = [c \in Calls |-> IdleRec(Input("getVersion", <<>>, 0))]
    /\ vpath = <<>>
    /\ vres = "none"
    /\ \/ \E p \in EncPayloads : EncStart("payload", p)
       \/ \E r \in EncReqs : EncStart("signData", r)
       \/ \E tx \in EncTxs : EncStart("package", tx)
       \/ \E path \in EncPaths : EncStart("path", path)
       \/ \E v \in EncInts : EncStart("writeVarUInt", v) \/ EncStart("writeUint64", v)
       \/ \E a \in EncAddrs : EncStart("writeAddress", a)
       \/ \E buf \in EncBufs : EncStart("chunks", buf)
       \/ \E tx \in EncTxs : EncStart("transfer", tx)

\* signTransaction, payload section applied to a payload: the error thrown,
\* or the cell and the hints
EncodePayload ==
    EncDone("payload",
            IF PayloadError(<<enc.in>>) # ""
            THEN [error |-> PayloadError(<<enc.in>>)]
            ELSE [error |-> "", cell |-> PayloadCell(<<enc.in>>),
                  hints |-> PayloadHints(<<enc.in>>)])

\* signData, switch on req.type applied to a request: the error thrown, or
\* the cell and the data
EncodeSignData ==
    EncDone("signData",
            IF SignDataDispatch(enc.in) # ""
            THEN [error |-> SignDataDispatch(enc.in)]
            ELSE [error |-> "", cell |-> SignDataCell(enc.in), data |-> SignDataData(enc.in)])

\* signTransaction, create package .. serialize payload applied to a transaction
EncodePackage == EncDone("package", TxPkg(enc.in))

\* check path, then the path buffer of the requests that carry the path
EncodePath ==
    EncDone("path",
            IF validatePath(enc.in) # "ok" THEN Thrown
            ELSE pathElementsToBuffer(Harden(enc.in)))

EncodeVarUInt == EncDone("writeVarUInt", writeVarUInt(enc.in))

EncodeUint64 == EncDone("writeUint64", writeUint64(enc.in))

EncodeAddress == EncDone("writeAddress", writeAddress(enc.in))

\* signTransaction applied to a transaction that the device signs: the
\* request buffer, the transfer it reconstructs and the message it returns
EncodeTransfer ==
    EncDone("transfer",
            [pkg |-> TxPkg(enc.in), transfer |-> TransferCell(enc.in),
             message |-> SignedMessage(enc.in, Rep(9, 64))])

\* const pkgCs = chunks(pkg, 255)
EncodeChunks == EncDone("chunks", chunks(enc.in, 255))

NextEnc ==
    \/ EncodePayload
    \/ EncodeSignData
    \/ EncodePackage
    \/ EncodePath
    \/ EncodeVarUInt
    \/ EncodeUint64
    \/ EncodeAddress
    \/ EncodeChunks
    \/ EncodeTransfer

SpecEnc == InitEnc /\ [][NextEnc]_vars

----------------------------------------------------------------------------
\* Properties

Sending == {c \in Calls : call[c].pc = "sending"}

Range(q) == {q[k] : k \in 1..Len(q)}

\* C1: at most one transport.send is in flight at any moment, whatever the
\* number of concurrent callers: every exchange of #doRequest and of
\* #getCurrentApp runs inside the one AsyncLock.
C1_OneSendInFlight == Cardinality(Sending) <= 1

\* a send of #getCurrentApp or #doRequest is in flight while another caller waits
C1_Witness ==
    \E c, d \in Calls : call[c].pc = "sending" /\ call[d].pc = "waiting"

\* the path declaration of c has returned and its final chunk has not started
MidSign(c) ==
    /\ call[c].op = "signTransaction"
    /\ \/ call[c].stage \in {"decl", "chunk"} /\ call[c].pc = "settled" /\ call[c].resp.ok
       \/ call[c].stage \in {"chunk", "final"} /\ call[c].pc \in {"waiting", "granted"}

\* C2: with two concurrent signTransaction calls, no exchange of one call
\* falls between the path declaration and the final chunk of the other.
C2_NoInterleavedSigning ==
    \A c, d \in Calls :
        (c # d /\ call[d].op = "signTransaction" /\ MidSign(c)) => call[d].pc # "sending"

ClaimInvalidPath(P) ==
    \/ Len(P) < 6
    \/ P[1] # U32(0, 44)
    \/ P[2] # U32(0, 607)
    \/ \E k \in 1..Len(P) : P[k][1] >= 32768

PathRejected(c) ==
    /\ call[c].sent = <<>>
    /\ call[c].pc \in {"idle", "done"}
    /\ call[c].pc = "done" => call[c].out.kind = "throw"
    /\ c \notin Range(queue)
    /\ c \notin Range(arrived)

\* C4: getAddress, validateAddress, getAddressProof, signData and
\* signTransaction called with an invalid path fail without any
\* transport.send, and the call leaves the lock and its queue unchanged.
C4_InvalidPathNoIO ==
    /\ [](\A c \in Calls :
            (ChecksPath(call[c].op) /\ ClaimInvalidPath(call[c].path)) => PathRejected(c))
    /\ [][\A c \in Calls :
            (ChecksPath(call[c].op) /\ ClaimInvalidPath(call[c].path)
                /\ call[c].pc = "idle" /\ call'[c].pc # "idle")
            => (permits' = permits /\ queue' = queue /\ call'[c].pc = "done")]_vars

\* a call with an invalid path has failed while another call holds the lock
C4_Witness ==
    \E c \in Calls :
        /\ ChecksPath(call[c].op)
        /\ ClaimInvalidPath(call[c].path)
        /\ call[c].pc = "done"
        /\ call[c].out.kind = "throw"
        /\ permits = 0

UnknownPayload(c) ==
    \/ /\ call[c].op = "signTransaction"
       /\ Len(TxTable[call[c].arg].payload) # 0
       /\ TxTable[call[c].arg].payload[1].type
              \notin {"comment", "unsafe", "jetton-transfer", "nft-transfer"}
    \/ /\ call[c].op = "signData"
       /\ ReqTable[call[c].arg].type \notin {"plaintext", "app-data"}

\* C6: a payload of an unhandled kind is rejected before any
\* transport.send: signTransaction and signData send nothing to the device
\* for it and fail.
C6_UnknownPayloadNoIO ==
    \A c \in Calls :
        UnknownPayload(c) =>
            /\ call[c].sent = <<>>
            /\ call[c].pc = "done" => call[c].out.kind = "throw"

\* the final response of a signTransaction call has been processed
FinalProcessed(c) ==
    /\ call[c].op = "signTransaction"
    /\ call[c].stage = "final"
    /\ call[c].pc = "done"
    /\ call[c].resp.ok

ReportedHash(c) == Slice(call[c].resp.data, 66, 98)

ReportedSignature(c) == Slice(call[c].resp.data, 1, 65)

\* C7: when the hash reported in the response differs from the hash of the
\* reconstructed transfer, signTransaction fails with the hash mismatch
\* error and signVerify is not invoked.
C7_HashBeforeSignature ==
    \A c \in Calls :
        (FinalProcessed(c) /\ ReportedHash(c) # TxHashes[call[c].arg]) =>
            /\ call[c].out.kind = "throw"
            /\ call[c].out.error = "Hash mismatch"
            /\ call[c].verified = 0

\* the device reported a full 32-byte hash of something else, validly signed
C7_Witness ==
    \E c \in Calls :
        /\ FinalProcessed(c)
        /\ Len(ReportedHash(c)) = 32
        /\ ReportedHash(c) # TxHashes[call[c].arg]
        /\ signVerify(ReportedHash(c), ReportedSignature(c), call[c].publicKey)

Verified(c) ==
    /\ FinalProcessed(c)
    /\ ReportedHash(c) = TxHashes[call[c].arg]
    /\ Len(call[c].publicKey) = 32
    /\ signVerify(TxHashes[call[c].arg], ReportedSignature(c), call[c].publicKey)

\* C8: signTransaction returns a signed artifact only if bytes 66..97 of the
\* final response equal the hash of the reconstructed transfer and bytes
\* 1..64 are the signature of that hash under the key the device returned;
\* in every other case the call throws and returns nothing.
C8_ReturnOnlyVerified ==
    \A c \in Calls :
        (call[c].op = "signTransaction" /\ call[c].pc = "done") =>
            /\ call[c].out.kind = "return" => Verified(c)
            /\ ~Verified(c) => (call[c].out.kind = "throw" /\ call[c].out.value = <<>>)

\* a call returned its artifact
C8_Witness ==
    \E c \in Calls :
        /\ call[c].op = "signTransaction"
        /\ call[c].pc = "done"
        /\ call[c].out.kind = "return"
        /\ Len(call[c].out.value) = 64

IsPrefix(a, b) == Len(a) <= Len(b) /\ a = SubSeq(b, 1, Len(a))

\* the exchanges of the claim for a chunked call: key query, declaration,
\* the chunks but the last with p2 = 2, the last chunk with p2 = 0
ClaimExchanges(c) ==
    LET ins == IF call[c].op = "signTransaction" THEN 6 ELSE 9
        n == Len(Pkg(call[c]))
        nc == (n + 254) \div 255
        plen == 1 + 4 * Len(call[c].path)
        head == <<Req(224, 5, 0, 0, "path", 0, plen), Req(224, ins, 0, 3, "path", 0, plen)>>
    IN  IF n = 0 THEN head
        ELSE head \o [k \in 1..(nc - 1) |-> Req(224, ins, 0, 2, "chunk", k - 1, 255)]
                  \o <<Req(224, ins, 0, 0, "chunk", nc - 1, n - 255 * (nc - 1))>>

\* C9: a signTransaction or signData call issues, after the key query, one
\* path declaration (p2 = 3), then every chunk but the last in ascending
\* order (p2 = 2), then the last chunk (p2 = 0); each exchange is issued
\* after the previous one of the call has returned, and the result is taken
\* from the response to the p2 = 0 exchange.
C9_ExchangeOrder ==
    \A c \in Calls :
        Chunked(call[c].op) =>
            /\ IsPrefix(call[c].sent, ClaimExchanges(c))
            /\ Len(call[c].sent) =
                   call[c].nsettled + (IF call[c].pc = "sending" THEN 1 ELSE 0)
            /\ call[c].out.kind = "return" =>
                   /\ call[c].sent = ClaimExchanges(c)
                   /\ call[c].out.value = Slice(call[c].resp.data, 1, 65)

\* a request of three chunks was sent and answered while another call was
\* making exchanges of its own
C9_Witness ==
    \E c, d \in Calls :
        /\ c # d
        /\ call[c].op = "signData"
        /\ call[c].out.kind = "return"
        /\ Len(call[c].sent) = 5
        /\ call[c].sent[3].p2 = 2 /\ call[c].sent[4].p2 = 2 /\ call[c].sent[5].p2 = 0
        /\ call[d].op = "signTransaction"
        /\ call[d].pc = "granted"
        /\ call[d].stage = "final"

Failed(c) == call[c].pc \in {"settled", "done"} /\ ~call[c].resp.ok

\* C10: once a transport.send of a call has failed, the call issues no
\* further transport.send, does not retry, returns no result and fails with
\* the error the transport raised.
C10_FailureAborts ==
    /\ [](\A c \in Calls :
            (Failed(c) /\ call[c].pc = "done") =>
                /\ call[c].out.kind = "throw"
                /\ call[c].out.error = call[c].resp.error
                /\ call[c].out.value = <<>>)
    /\ [][\A c \in Calls :
            Failed(c) =>
                /\ call'[c].sent = call[c].sent
                /\ call'[c].resp = call[c].resp
                /\ call'[c].pc \in {"settled", "done"}]_vars

\* an intermediate chunk was rejected and the call failed with that error
C10_Witness ==
    \E c \in Calls :
        /\ Failed(c)
        /\ call[c].pc = "done"
        /\ call[c].stage = "chunk"
        /\ call[c].out.error = "DisconnectedDevice"
        /\ Len(call[c].sent) = 3

\* an address query whose opts name a chain other than 0 and -1
OtherChain(c) ==
    /\ call[c].op \in {"getAddress", "validateAddress"}
    /\ processAddressFlags(OptsTable[call[c].arg]).chain \notin {0, -1}

\* C11: getAddress and validateAddress with opts.chain outside {0, -1} send
\* nothing to the device and fail with the invalid-chain error.
C11_InvalidChainNoIO ==
    \A c \in Calls :
        OtherChain(c) =>
            /\ call[c].sent = <<>>
            /\ call[c].pc = "done" =>
                   call[c].out.kind = "throw" /\ call[c].out.error = "Invalid chain"

\* an app-data sign request that sets neither address nor domain
NoAddressNoDomain(c) ==
    /\ call[c].op = "signData"
    /\ ReqTable[call[c].arg].type = "app-data"
    /\ Len(ReqTable[call[c].arg].address) = 0
    /\ Len(ReqTable[call[c].arg].domain) = 0

\* C12: signData with an app-data request that sets neither address nor
\* domain fails, and sends nothing to the device before it fails.
C12_AppDataShapeNoIO ==
    \A c \in Calls :
        NoAddressNoDomain(c) =>
            /\ call[c].sent = <<>>
            /\ call[c].pc = "done" => call[c].out.kind = "throw"

\* the payload section has been applied to a payload with a typed hint
TypedHints ==
    /\ enc.fn = "payload"
    /\ enc.done
    /\ enc.out.error = ""
    /\ enc.in.type \in {"comment", "jetton-transfer", "nft-transfer"}

\* C13: for a comment, jetton-transfer or nft-transfer payload the 2-byte
\* big-endian length field after the tag and the subtype equals the number
\* of hint bytes that follow it, whenever that number is at most 65535.
C13_HintLength ==
    (TypedHints /\ Len(enc.out.hints) - 7 <= 65535) =>
        /\ Len(enc.out.hints) >= 7
        /\ enc.out.hints[6] * 256 + enc.out.hints[7] = Len(enc.out.hints) - 7

C13_Witness ==
    /\ TypedHints
    /\ enc.in.type = "jetton-transfer"
    /\ Len(enc.in.queryId) # 0 /\ Len(enc.in.customPayload) # 0
    /\ Len(enc.in.forwardPayload) # 0
    /\ Len(enc.out.hints) - 7 > 255

\* the presence bits of a cell, in the order they are stored
TreeBits(c) ==
    LET bits == SelectSeq(c.fields, LAMBDA f : f.k = "bit")
    IN  [k \in 1..Len(bits) |-> bits[k].v[1]]

\* the payload section has been applied to a jetton or nft transfer
TransferEncoded ==
    /\ enc.fn = "payload"
    /\ enc.done
    /\ enc.in.type \in {"jetton-transfer", "nft-transfer"}

\* the switch of signData has been applied to an app-data request it accepts
AppDataEncoded ==
    /\ enc.fn = "signData"
    /\ enc.done
    /\ enc.in.type = "app-data"
    /\ enc.out.error = ""

\* the presence bytes of the hints of a transfer, read from the hint bytes:
\* queryId, customPayload, forwardPayload
TransferHintFlags(h, jetton) ==
    LET q == h[8]
        afterQuery == 9 + 8 * q
        afterTarget == IF jetton
                       THEN LET ticker == afterQuery + 1 + h[afterQuery] + 1
                            IN  ticker + 1 + h[ticker] + 33
                       ELSE afterQuery + 33
        custom == afterTarget + 33
        forwardAmount == custom + 1 + 34 * h[custom]
        forward == forwardAmount + 1 + h[forwardAmount]
    IN  <<q, h[custom], h[forward]>>

\* the presence bytes of the data of an app-data request, read from the data
\* bytes: address, domain, ext
AppDataHintFlags(d) ==
    LET domain == 2 + 33 * d[1]
        data == domain + 1 + (IF d[domain] = 1 THEN 1 + d[domain + 1] ELSE 0)
    IN  <<d[1], d[domain], d[data + 34]>>

\* C14 as stated: every optional field (queryId, customPayload,
\* forwardPayload; address, domain, ext) has a presence byte in the hints
\* and a presence bit in the tree, and the two are equal.
C14_PresenceAgrees ==
    /\ TransferEncoded =>
           TreeBits(enc.out.cell[1])
               = TransferHintFlags(enc.out.hints, enc.in.type = "jetton-transfer")
    /\ AppDataEncoded => TreeBits(enc.out.cell) = AppDataHintFlags(enc.out.data)

\* C14, amended: customPayload and forwardPayload of a transfer and address,
\* domain and ext of an app-data request have equal presence byte and
\* presence bit, and the tree holds the value exactly when they are 1;
\* queryId has a presence byte in the hints only: the tree stores a 64-bit
\* query id without a presence bit, 0 when queryId is null.
C14_PresenceAgreesButQueryId ==
    /\ TransferEncoded =>
           LET flags == TransferHintFlags(enc.out.hints, enc.in.type = "jetton-transfer")
               cell == enc.out.cell[1]
           IN  /\ TreeBits(cell) = <<flags[2], flags[3]>>
               /\ Len(cell.refs) = flags[2] + flags[3]
               /\ flags[1] = (IF Len(enc.in.queryId) # 0 THEN 1 ELSE 0)
               /\ flags[2] = (IF Len(enc.in.customPayload) # 0 THEN 1 ELSE 0)
               /\ flags[3] = (IF Len(enc.in.forwardPayload) # 0 THEN 1 ELSE 0)
               /\ cell.fields[2].k = "uint" /\ cell.fields[2].n = 64
               /\ cell.fields[2].v = (IF flags[1] = 1 THEN enc.in.queryId ELSE <<BigInt(0)>>)
    /\ AppDataEncoded =>
           LET flags == AppDataHintFlags(enc.out.data)
               cell == enc.out.cell
           IN  /\ TreeBits(cell) = flags
               /\ Len(cell.refs) = flags[2] + 1 + flags[3]
               /\ flags[1] = (IF Len(enc.in.address) # 0 THEN 1 ELSE 0)
               /\ flags[2] = (IF Len(enc.in.domain) # 0 THEN 1 ELSE 0)
               /\ flags[3] = (IF Len(enc.in.ext) # 0 THEN 1 ELSE 0)
               /\ Len(SelectSeq(cell.fields, LAMBDA f : f.k = "addr")) = flags[1]

C14_Witness ==
    /\ TransferEncoded
    /\ enc.in.type = "jetton-transfer"
    /\ TransferHintFlags(enc.out.hints, TRUE) = <<1, 1, 0>>
    /\ TreeBits(enc.out.cell[1]) = <<1, 0>>

\* the request buffer of a transaction has been built
PackageEncoded == enc.fn = "package" /\ enc.done

\* the fixed part of the request buffer as C15 lays it out: header, seqno,
\* timeout, varuint(amount), destination, bounce, send mode, state init
ClaimPackageHead(tx) ==
    <<0>> \o BE(tx.seqno, 4) \o BE(tx.timeout, 4)
        \o <<Len(tx.amount.mag)>> \o tx.amount.mag
        \o <<IF tx.to.workChain = -1 THEN 255 ELSE tx.to.workChain>> \o tx.to.hash
        \o <<IF tx.bounce THEN 1 ELSE 0>> \o <<tx.sendMode>>
        \o (IF Len(tx.stateInit) # 0
            THEN <<1>> \o BE(depth(tx.stateInit[1]), 2) \o hash(tx.stateInit[1])
            ELSE <<0>>)

\* a payload of a type the payload section handles
HandledPayload(tx) ==
    /\ Len(tx.payload) # 0
    /\ tx.payload[1].type \in {"comment", "unsafe", "jetton-transfer", "nft-transfer"}

\* presence byte, depth, hash and hints of a handled payload
ClaimPackagePayload(tx) ==
    <<1>> \o BE(depth(PayloadCell(tx.payload)[1]), 2) \o hash(PayloadCell(tx.payload)[1])
        \o PayloadHints(tx.payload)

\* C15 as stated: the request buffer is the fixed part, then the payload
\* presence byte, followed by depth, hash and hints only when a payload is
\* given; nothing follows the presence byte 0 of an absent payload.
C15_PackageLayout ==
    PackageEncoded =>
        /\ HandledPayload(enc.in) =>
               enc.out = ClaimPackageHead(enc.in) \o ClaimPackagePayload(enc.in)
        /\ Len(enc.in.payload) = 0 => enc.out = ClaimPackageHead(enc.in) \o <<0>>

\* C15, amended: as stated for a payload of a handled type; when no
\* payload is given the presence byte 0 is followed by one more byte 0, the
\* presence byte of the absent hints, and by nothing else.
C15_PackageLayoutHintsByte ==
    PackageEncoded =>
        /\ HandledPayload(enc.in) =>
               enc.out = ClaimPackageHead(enc.in) \o ClaimPackagePayload(enc.in)
        /\ Len(enc.in.payload) = 0 => enc.out = ClaimPackageHead(enc.in) \o <<0, 0>>

C15_Witness ==
    /\ PackageEncoded
    /\ Len(enc.in.payload) = 0
    /\ Len(enc.in.stateInit) # 0
    /\ Len(enc.out) = 1 + 4 + 4 + 5 + 33 + 1 + 1 + 35 + 2

\* the path buffer of a valid path has been built
PathEncoded == enc.fn = "path" /\ enc.done /\ validatePath(enc.in) = "ok"

\* the path read back from a path buffer: each group of 4 bytes as a
\* big-endian number, less 2^31
DecodePath(buf) ==
    [i \in 1..((Len(buf) - 1) \div 4) |->
        U32(buf[4 * i - 2] * 256 + buf[4 * i - 1] - 32768, buf[4 * i] * 256 + buf[4 * i + 1])]

\* length, first byte and elements of the path buffer in enc.out are those of
\* the path in enc.in
ClaimPathBuffer ==
    /\ Len(enc.out) = 1 + 4 * Len(enc.in)
    /\ enc.out[1] = Len(enc.in)
    /\ \A i \in 1..Len(enc.in) :
           /\ enc.out[4 * i - 2] = (enc.in[i][1] + 32768) \div 256
           /\ enc.out[4 * i - 1] = enc.in[i][1] % 256
           /\ enc.out[4 * i] = enc.in[i][2] \div 256
           /\ enc.out[4 * i + 1] = enc.in[i][2] % 256
    /\ DecodePath(enc.out) = enc.in

\* C16 as stated: the path buffer of every valid path P has length
\* 1 + 4*len(P), its first byte is len(P), bytes 1+4i..4+4i are the
\* big-endian 32-bit encoding of P[i] + 2^31, and P is recovered from it.
C16_PathBuffer == PathEncoded => ClaimPathBuffer

\* C16, amended: the same for every valid path of at most 255 elements.
C16_PathBufferUpTo255 == (PathEncoded /\ Len(enc.in) <= 255) => ClaimPathBuffer

C16_Witness ==
    /\ PathEncoded
    /\ Len(enc.in) = 7
    /\ enc.in[7] = U32(32767, 65535)
    /\ enc.in[3] = U32(1, 0)
    /\ SubSeq(enc.out, 26, 29) = <<255, 255, 255, 255>>

\* writeVarUInt has been applied to a value that is not negative
VarUIntEncoded == enc.fn = "writeVarUInt" /\ enc.done /\ ~enc.in.neg

\* the big-endian bytes of a buffer without its leading zero bytes
RECURSIVE StripZeros(_)
StripZeros(buf) ==
    IF Len(buf) # 0 /\ buf[1] = 0 THEN StripZeros(Tail(buf)) ELSE buf

\* enc.out is the number N = ceil(bitlen(v)/8) of bytes and then the N bytes
\* of the big-endian encoding of v = enc.in, the first of them not 0
ClaimVarUInt ==
    /\ Len(enc.out) = 1 + (BitLen(enc.in) + 7) \div 8
    /\ enc.out[1] = (BitLen(enc.in) + 7) \div 8
    /\ enc.out[2] # 0
    /\ Tail(enc.out) = enc.in.mag

\* C17 as stated: writeVarUInt(0) is the single byte 0, and for every v > 0
\* writeVarUInt(v) is N = ceil(bitlen(v)/8) followed by the N bytes of v,
\* big-endian with no leading zero byte.
C17_VarUInt ==
    VarUIntEncoded =>
        IF BitLen(enc.in) = 0 THEN enc.out = <<0>> ELSE ClaimVarUInt

\* C17, amended: the same for every v with 0 < v < 2^1008; writeVarUInt
\* fails for a larger v.
C17_VarUIntBelow2p1008 ==
    VarUIntEncoded =>
        IF BitLen(enc.in) = 0 THEN enc.out = <<0>>
        ELSE IF BitLen(enc.in) <= 1008 THEN ClaimVarUInt
        ELSE enc.out = Thrown

C17_Witness ==
    /\ VarUIntEncoded
    /\ enc.in = Pow2m1(1008)
    /\ Len(enc.out) = 127
    /\ enc.out[1] = 126

\* writeUint64 has been applied
Uint64Encoded == enc.fn = "writeUint64" /\ enc.done

\* C18: for 0 <= v < 2^64 writeUint64(v) is 8 bytes whose big-endian
\* interpretation is v; for v >= 2^64 and for a negative v it fails.
C18_Uint64 ==
    Uint64Encoded =>
        IF ~enc.in.neg /\ BitLen(enc.in) <= 64
        THEN Len(enc.out) = 8 /\ StripZeros(enc.out) = enc.in.mag
        ELSE enc.out = Thrown

C18_Witness ==
    /\ Uint64Encoded
    /\ enc.in = Pow2(64)
    /\ enc.out = Thrown

\* writeAddress has been applied
AddressEncoded == enc.fn = "writeAddress" /\ enc.done

\* C19: writeAddress(a) is 33 bytes, 0xFF for workChain -1 and otherwise the
\* raw chain id, then the 32-byte hash; a chain id that is neither -1 nor in
\* 0..255 is not truncated to a byte, and no other address gives the same
\* 33 bytes.
C19_AddressNotTruncated ==
    AddressEncoded =>
        /\ enc.in.workChain \in -1..255 =>
               /\ Len(enc.out) = 33
               /\ enc.out[1] = (IF enc.in.workChain = -1 THEN 255 ELSE enc.in.workChain)
               /\ Tail(enc.out) = enc.in.hash
        /\ enc.in.workChain \notin -1..255 => enc.out = Thrown
        /\ \A a \in EncAddrs : a # enc.in => writeAddress(a) # enc.out

\* the payload section has been applied to the jetton transfer with
\* queryId null, amount 1, destination and responseDestination D,
\* customPayload null, forwardAmount 0 and forwardPayload null
ScenarioB ==
    /\ enc.fn = "payload"
    /\ enc.done
    /\ enc.in.type = "jetton-transfer"
    /\ enc.in.queryId = <<>> /\ enc.in.amount = BigInt(1)
    /\ enc.in.destination = AddrD /\ enc.in.responseDestination = AddrD
    /\ enc.in.customPayload = <<>> /\ enc.in.forwardAmount = BigInt(0)
    /\ enc.in.forwardPayload = <<>>

\* what the fields of a cell hold, and how many bits each takes
FieldValues(c) == [k \in 1..Len(c.fields) |-> c.fields[k].v]

FieldBits(c) == [k \in 1..Len(c.fields) |-> c.fields[k].n]

\* the values of the tree of scenario B in order: tag 0x0f8a7ea5, zero,
\* amount 1, D, D, bit 0, amount 0, bit 0
ScenarioBValues ==
    <<<<260734629>>, <<BigInt(0)>>, <<BigInt(1)>>, <<AddrD.workChain>> \o AddrD.hash,
      <<AddrD.workChain>> \o AddrD.hash, <<0>>, <<BigInt(0)>>, <<0>>>>

\* C20 as stated: the tree of scenario B is the 32-bit tag, a 64-bit zero,
\* varuint(1), the 33-byte address D twice, presence bit 0, varuint(0),
\* presence bit 0, and nothing else.
C20_ScenarioBTree ==
    ScenarioB =>
        /\ FieldValues(enc.out.cell[1]) = ScenarioBValues
        /\ FieldBits(enc.out.cell[1])
               = <<32, 64, 8 * Len(writeVarUInt(BigInt(1))), 8 * Len(writeAddress(AddrD)),
                   8 * Len(writeAddress(AddrD)), 1, 8 * Len(writeVarUInt(BigInt(0))), 1>>
        /\ enc.out.cell[1].refs = <<>>

\* C20, amended: the same fields in the same order, with the amounts stored
\* as coins (a 4-bit byte count and the bytes: 12 bits for 1, 4 bits for 0)
\* and each address stored as a 267-bit address: 648 bits, no reference.
C20_ScenarioBTreeCoins ==
    ScenarioB =>
        /\ FieldValues(enc.out.cell[1]) = ScenarioBValues
        /\ [k \in 1..Len(enc.out.cell[1].fields) |-> enc.out.cell[1].fields[k].k]
               = <<"uint", "uint", "coins", "addr", "addr", "bit", "coins", "bit">>
        /\ FieldBits(enc.out.cell[1]) = <<32, 64, 12, 267, 267, 1, 4, 1>>
        /\ enc.out.cell[1].refs = <<>>

C20_Witness == ScenarioB /\ Len(enc.out.cell[1].fields) = 8

\* the payload section has been applied to a comment
CommentEncoded == enc.fn = "payload" /\ enc.done /\ enc.in.type = "comment"

\* tree and hints of the comment in enc.in: the 32-bit zero tag and the
\* bytes of the text; 01, 00000000, the 2-byte length and the bytes
ClaimComment ==
    /\ enc.out.error = ""
    /\ enc.out.cell[1].fields = <<F("uint", <<0>>, 32),
                                  F("buf", enc.in.text, 8 * Len(enc.in.text))>>
    /\ enc.out.cell[1].refs = <<>>
    /\ enc.out.hints
           = <<1, 0, 0, 0, 0, Len(enc.in.text) \div 256, Len(enc.in.text) % 256>>
               \o enc.in.text

\* C21: for a comment with text T the tree is the 32-bit zero tag followed
\* by the bytes of T and the hints are 01, 00000000, the 2-byte length of T
\* and the bytes of T.
C21_Comment == CommentEncoded => ClaimComment

\* the encodings C22 names: varuint, 33-byte address, presence byte with
\* 8-byte value, presence byte with depth and hash
ClaimVarUIntOf(v) == <<Len(v.mag)>> \o v.mag

ClaimAddressOf(a) == <<IF a.workChain = -1 THEN 255 ELSE a.workChain>> \o a.hash

ClaimMaybeUint64(q) ==
    IF Len(q) = 0 THEN <<0>> ELSE <<1>> \o Rep(0, 8 - Len(q[1].mag)) \o q[1].mag

ClaimMaybeRef(oc) ==
    IF Len(oc) = 0 THEN <<0>> ELSE <<1>> \o BE(depth(oc[1]), 2) \o hash(oc[1])

\* the fields the tree of a transfer carries, flattened in tree order
ClaimTransferBody(p) ==
    ClaimMaybeUint64(p.queryId)
        \o (IF p.type = "jetton-transfer"
            THEN ClaimVarUIntOf(p.amount) \o ClaimAddressOf(p.destination)
            ELSE ClaimAddressOf(p.newOwner))
        \o ClaimAddressOf(p.responseDestination)
        \o ClaimMaybeRef(p.customPayload)
        \o ClaimVarUIntOf(p.forwardAmount)
        \o ClaimMaybeRef(p.forwardPayload)

\* C22: the hint body of a jetton or nft transfer is the flattening of the
\* fields the tree carries, in tree order, after the tag 01, the subtype
\* (1 jetton, 2 nft) and the 2-byte length; it holds no other field.
C22_HintFlattening ==
    TransferEncoded =>
        /\ SubSeq(enc.out.hints, 1, 5)
               = <<1, 0, 0, 0, IF enc.in.type = "jetton-transfer" THEN 1 ELSE 2>>
        /\ SubSeq(enc.out.hints, 8, Len(enc.out.hints)) = ClaimTransferBody(enc.in)

\* the payload section has been applied to a transfer with queryId null
NullQueryId == TransferEncoded /\ enc.in.queryId = <<>>

\* C23: the tree of a jetton or nft transfer with queryId null stores a
\* 64-bit zero query id and is the tree of the same transfer with queryId 0n.
C23_NullQueryIdIsZero ==
    NullQueryId =>
        /\ enc.out.cell[1].fields[2] = F("uint", <<BigInt(0)>>, 64)
        /\ enc.out.cell = PayloadCell(<<[enc.in EXCEPT !.queryId = <<BigInt(0)>>]>>)

C23_Witness ==
    /\ NullQueryId
    /\ enc.in.type = "nft-transfer"
    /\ Len(enc.in.customPayload) # 0
    /\ Len(enc.out.cell[1].fields) = 7

\* the requests of call c that carry address flags: the address query with
\* p1 = 1 and the proof request
FlagRequests(c) ==
    {i \in 1..Len(call[c].sent) :
        \/ call[c].sent[i].ins = INS_ADDRESS /\ call[c].sent[i].p1 = 1
        \/ call[c].sent[i].ins = INS_PROOF}

\* C24: the p2 of validateAddress and of the proof request of
\* getAddressProof has bit 0 set exactly when testOnly is true, bit 1 set
\* exactly when chain = -1 and no other bit; bounceable does not enter it.
C24_AddressFlags ==
    \A c \in Calls :
        call[c].op \in {"validateAddress", "getAddressProof"} =>
            \A i \in FlagRequests(c) :
                call[c].sent[i].p2
                    = (IF OptsTable[call[c].arg].testOnly = <<TRUE>> THEN 1 ELSE 0)
                        + (IF OptsTable[call[c].arg].chain = <<-1>> THEN 2 ELSE 0)

C24_Witness ==
    \E c \in Calls :
        /\ call[c].op = "getAddressProof"
        /\ OptsTable[call[c].arg].bounceable = <<FALSE>>
        /\ call[c].pc = "done"
        /\ \E i \in FlagRequests(c) : call[c].sent[i].p2 = 3

\* the exchanges of call c that carried a chunk of its package
ChunkReqs(c) == SelectSeq(call[c].sent, LAMBDA r : r.what = "chunk")

Chunked255 == enc.fn = "chunks" /\ enc.done

\* C26: chunks(buf, 255) of a non-empty buffer has ceil(len / 255) chunks,
\* each but the last of 255 bytes, the last of 1 to 255 bytes, and the chunks
\* joined in order are the buffer: the bytes of the exchanges that carry the
\* chunks, in order, are the assembled request.
C26_ChunksPartition ==
    Chunked255 =>
        /\ Len(enc.out) * 255 >= Len(enc.in)
        /\ (Len(enc.out) - 1) * 255 < Len(enc.in)
        /\ \A k \in 1..(Len(enc.out) - 1) : Len(enc.out[k]) = 255
        /\ Len(enc.out[Len(enc.out)]) \in 1..255
        /\ Concat(enc.out) = enc.in

C26_Witness ==
    /\ Chunked255
    /\ Len(enc.in) = 510
    /\ Len(enc.out) = 2
    /\ Len(enc.out[2]) = 255

\* the final response of a signData call has been processed
SignDataProcessed(c) ==
    /\ call[c].op = "signData"
    /\ call[c].stage = "final"
    /\ call[c].pc = "done"
    /\ call[c].resp.ok

\* the message the device has to sign: schema tag, timestamp, hash of the cell
SignDataMessage(c) ==
    SignDataCommonPart(ReqTable[call[c].arg], SignDataOpts.timestamp) \o ReqHashes[call[c].arg]

SignDataVerified(c) ==
    /\ SignDataProcessed(c)
    /\ ReportedHash(c) = ReqHashes[call[c].arg]
    /\ Len(ReportedSignature(c)) = 64
    /\ Len(call[c].publicKey) = 32
    /\ \E i \in 1..Len(call[c].sent) :
            call[c].sent[i].ins = INS_ADDRESS /\ call[c].sent[i].len = PathBufLen(call[c].path)
    /\ signVerify(SignDataMessage(c), ReportedSignature(c), call[c].publicKey)

\* C27: signData returns only if bytes 66..97 of the final response are the
\* hash of the cell built from the request and bytes 1..64 are the signature,
\* under the key fetched for the path of the call, of the 4-byte schema tag,
\* the 8-byte timestamp and that hash; the hash is compared before signVerify
\* is invoked, and in every other case the call throws.
C27_SignDataVerified ==
    \A c \in Calls :
        (call[c].op = "signData" /\ call[c].pc = "done") =>
            /\ call[c].out.kind = "return" =>
                    (SignDataVerified(c) /\ call[c].out.value = ReportedSignature(c))
            /\ ~SignDataVerified(c) => (call[c].out.kind = "throw" /\ call[c].out.value = <<>>)
            /\ (SignDataProcessed(c) /\ ReportedHash(c) # ReqHashes[call[c].arg]) =>
                    (call[c].out.error = "Hash mismatch" /\ call[c].verified = 0)
            /\ Len(SignDataCommonPart(ReqTable[call[c].arg], SignDataOpts.timestamp)) = 12

\* signData has returned a signature
C27_Witness ==
    \E c \in Calls :
        /\ SignDataProcessed(c)
        /\ call[c].out.kind = "return"
        /\ Len(call[c].out.value) = 64

TransferBuilt == enc.fn = "transfer" /\ enc.done

\* the request of a transfer: the 1-based position of the presence byte of
\* the state init (after tag, seqno, timeout, amount, address, bounce and send
\* mode) and of the presence byte of the payload
StateInitAt == 46 + enc.out.pkg[10]

PayloadAt == IF enc.out.pkg[StateInitAt] = 1 THEN StateInitAt + 35 ELSE StateInitAt + 1

\* the order of the transfer, and the position of its payload bit
BuiltOrder == enc.out.transfer.refs[1]

PayloadBitAt == IF enc.out.pkg[StateInitAt] = 1 THEN 15 ELSE 14

\* C28: the state init and the payload whose depth and hash are written
\* into the request are the cells referenced by the order of the
\* reconstructed transfer and of the returned message: the presence byte of
\* each is 1 exactly when the order carries its presence bit and its
\* reference, and the cells are those of the transaction, unchanged.
C28_SameNodes ==
    TransferBuilt =>
        LET si == enc.out.pkg[StateInitAt]
            pl == enc.out.pkg[PayloadAt]
        IN  /\ si \in {0, 1}
            /\ pl \in {0, 1}
            /\ si = 1 <=> Len(enc.in.stateInit) # 0
            /\ BuiltOrder.fields[13] = F("bit", <<si>>, 1)
            /\ si = 1 => /\ BuiltOrder.fields[14] = F("bit", <<1>>, 1)
                          /\ BuiltOrder.refs[1] = enc.in.stateInit[1]
                          /\ Slice(enc.out.pkg, StateInitAt, StateInitAt + 34)
                                = writeCellRef(BuiltOrder.refs[1])
            /\ BuiltOrder.fields[PayloadBitAt] = F("bit", <<pl>>, 1)
            /\ Len(BuiltOrder.fields) = PayloadBitAt
            /\ Len(BuiltOrder.refs) = si + pl
            /\ pl = 1 => /\ <<BuiltOrder.refs[si + 1]>> = PayloadCell(enc.in.payload)
                          /\ Slice(enc.out.pkg, PayloadAt, PayloadAt + 34)
                                = writeCellRef(BuiltOrder.refs[si + 1])
            /\ pl = 0 => PayloadCell(enc.in.payload) = <<>>
            /\ enc.out.message.refs = <<BuiltOrder>>

C28_Witness ==
    /\ TransferBuilt
    /\ enc.out.pkg[StateInitAt] = 1
    /\ enc.out.pkg[PayloadAt] = 1
    /\ Len(BuiltOrder.refs) = 2
    /\ enc.in.payload[1].type = "jetton-transfer"

Holders == {c \in Calls : call[c].pc \in {"granted", "sending"}}

\* C29: if every transport.send settles, every call that was made ends with a
\* result or an error, every waiting exchange gets sent, and the lock is
\* free whenever no exchange holds it, whether the last one succeeded or
\* failed.
C29_Terminates ==
    /\ \A c \in Calls : (call[c].pc # "idle") ~> (call[c].pc = "done")
    /\ [](permits = 1 - Cardinality(Holders))
    /\ []((Holders = {}) => (queue = <<>>))

\* the exchange of one call was rejected and the permit went to another call
C29_Witness ==
    \E c1, c2 \in Calls :
        /\ c1 # c2
        /\ call[c1].pc = "settled"
        /\ ~call[c1].resp.ok
        /\ call[c2].pc = "granted"
        /\ call[c2].nsettled = 0
        /\ permits = 0

\* the key query of call c resolved with a response that, without its status
\* bytes, is not 32 bytes long, and the call has gone on from it
BadKeyProcessed(c) ==
    /\ call[c].nsettled >= 1
    /\ call[c].pc \notin {"settled", "sending", "granted", "waiting"} \/ call[c].stage # "key"
    /\ call[c].stage = "key" => (call[c].resp.ok /\ Len(call[c].resp.data) # 32)
    /\ call[c].stage # "key" => Len(call[c].publicKey) # 32

\* C30: when the response to the public-key query is not 32 bytes long,
\* getAddress and validateAddress throw the invalid-response error and return
\* no address, and signTransaction, signData and getAddressProof throw it
\* too and send nothing after the key query.
C30_InvalidKeyResponse ==
    \A c \in Calls :
        (call[c].stage \in {"key", "decl", "chunk", "final", "proof"} /\ BadKeyProcessed(c)) =>
            /\ call[c].pc = "done"
            /\ call[c].out = [kind |-> "throw", error |-> "Invalid response", value |-> <<>>]
            /\ Len(call[c].sent) = 1
            /\ call[c].sent[1].ins = INS_ADDRESS

C30_Witness ==
    \E c \in Calls :
        /\ call[c].op = "signTransaction"
        /\ call[c].arg = 3
        /\ call[c].stage = "key"
        /\ call[c].pc = "done"
        /\ call[c].resp.ok
        /\ Len(call[c].resp.data) = 33
        /\ Len(call[c].sent) = 1

====
